---------------------------- MODULE Spec2Model ----------------------------
(***************************************************************************)
(* Offline reconnection engine (startOfflineReconnection) of the happy CLI *)
(* (utils/serverConnectionErrors.ts).                                      *)
(*                                                                         *)
(* One handle is modelled: the closure variables of the call, the timer    *)
(* queue of the JavaScript runtime, the awaits an attempt is suspended at, *)
(* and history variables that record what the injected callbacks saw.      *)
(* The model is untimed: a pending timer may fire at any moment and an     *)
(* awaited promise may settle at any moment, with any outcome.             *)
(*                                                                         *)
(* The second part models the OfflineState singleton (connectionState) of  *)
(* the same file: its three fields and the lines it hands to console.log.  *)
(***************************************************************************)
EXTENDS Integers, Sequences, FiniteSets, TLC

(***************************************************************************)
(* Bounds of the model.                                                    *)
(***************************************************************************)
MaxFailures == 12       \* retryable failures explored on the handle (beyond the 10 of line 205)
MaxCancels == 3         \* cancel() calls explored on the handle
MaxAggregatorCalls == 6 \* calls explored on the connectionState singleton
MaxApiCalls == 3        \* failed requests of getOrCreateSession explored
MaxPrintRecords == 2    \* records of the failure Maps print() is applied to
MaxCombinedFailures == 1 \* retryable failures of the handle run next to the singleton
MaxCombinedCancels == 1 \* cancel() calls of the handle run next to the singleton
MaxCombinedCalls == 2   \* calls on the singleton made next to the handle

(***************************************************************************)
(* Values of the program.                                                  *)
(***************************************************************************)
NULL == "null"          \* JavaScript null (session, before a callback resolved)
UNDEFINED == "undefined" \* JavaScript undefined
NoTimer == 0            \* timeoutId = null

\* line 205: the failure count handed to exponentialBackoffDelay as the point
\* where the delay stops growing
BackoffMaxFailureCount == 10
\* line 205: the minimum and the maximum delay handed to exponentialBackoffDelay
MinDelayMs == 5000
MaxDelayMs == 60000

\* line 205 handing over the count before it was incremented
BackoffArgs_beforeIncrement(n) == <<n - 1, MinDelayMs, MaxDelayMs, BackoffMaxFailureCount>>

\* line 205: the arguments of exponentialBackoffDelay after the n-th failure
BackoffArgs(n) == <<n, MinDelayMs, MaxDelayMs, BackoffMaxFailureCount>>

\* randomized jitter a call of exponentialBackoffDelay may add, in ms
Jitters == {0, 500}

\* the smaller of two numbers
Min(a, b) == IF a < b THEN a ELSE b

\* exponentialBackoffDelay of utils/time.ts: the delay grows from minDelay at
\* the first failure to maxDelay at failure maxFailureCount, where it stays,
\* and randomized jitter is added (lines 117-121: attempt 1 about 5 s,
\* attempt 5 about 30 s, attempt 10 and later about 60 s)
ExponentialBackoffDelay(currentFailureCount, minDelay, maxDelay, maxFailureCount, jitter) ==
    minDelay
      + ((maxDelay - minDelay) * (Min(currentFailureCount, maxFailureCount) - 1))
          \div (maxFailureCount - 1)
      + jitter

\* line 205: const delay = exponentialBackoffDelay(...)
DelayOf(args, jitter) == ExponentialBackoffDelay(args[1], args[2], args[3], args[4], jitter)

\* the two strings handed to onNotify (leading emoji and backquotes left out)
SuccessMessage == "Reconnected! Session syncing in background."
AuthFailedMessage == "Authentication failed. Please re-authenticate with happy auth."

\* values onReconnected may resolve with (TSession is opaque; the tests resolve
\* with null and with undefined)
SessionValues == {"session-x", "session-y", NULL, UNDEFINED}

\* errors a health check or a callback may throw: whether axios.isAxiosError
\* recognises it, and its response.status (0: the error has no response)
Statuses == {0, 401, 403, 500}
Errors == [isAxiosError : BOOLEAN, status : Statuses]
NoError == [isAxiosError |-> FALSE, status |-> -1]

\* what the server answers to the GET of the default health check: a response
\* status, or NoResponse when the request ends in a network error or in the
\* timeout; NoAnswer: no default health check has settled
NoResponse == 0
NoAnswer == -1
ServerAnswers == {NoResponse, 200, 401, 403, 404, 499, 500, 503}

VARIABLES
    \* closure variables of startOfflineReconnection
    reconnected, session, timeoutId, failureCount, cancelled,
    \* config: whether an onCleanup callback was supplied
    hasCleanup,
    \* runtime: pending timers (ids), next id setTimeout hands out,
    \* attempts suspended at await healthCheck() and await onReconnected()
    timers, nextTimer, awaitingHealthCheck, awaitingOnReconnected,
    \* history: invocations of the injected functions
    healthCheckCalls, onReconnectedCalls, onReconnectedThrows, notifications,
    cleanupCalls, cancelCalls,
    \* history: timer callbacks the runtime has run
    timerFirings,
    \* history: what the last settled await produced
    lastOutcome, lastError, lastValue,
    \* history: assignments to session and to reconnected
    sessionWrites, reconnectedWrites,
    \* history: where the engine was at the first cancel()
    cancelledAt, onReconnectedCallsAtCancel,
    \* history: what the server answered to the last default health check, and
    \* the arguments of the last call of exponentialBackoffDelay
    lastAnswer, lastBackoff,
    \* history: the delay last handed to setTimeout by the catch block (0: none yet)
    lastDelay,
    \* fields of the OfflineState singleton; failures is the Map in insertion order
    state, failures, backend,
    \* lines handed to console.log by OfflineState.print
    console,
    \* history: calls made on the singleton, the last one, its argument and
    \* what isOffline() last returned
    aggregatorCalls, lastCall, lastFailure, isOfflineResult,
    \* history: the backend name last handed to setBackend or printOfflineWarning
    lastBackendArg,
    \* history: failed requests of ApiClient.getOrCreateSession, the error of the
    \* last one and how the call ended
    apiCalls, lastApiError, apiResult

codeVars == <<reconnected, session, timeoutId, failureCount, cancelled, hasCleanup>>
runtimeVars == <<timers, nextTimer, awaitingHealthCheck, awaitingOnReconnected>>
callVars == <<healthCheckCalls, onReconnectedCalls, onReconnectedThrows,
              notifications, cleanupCalls, cancelCalls>>
outcomeVars == <<lastOutcome, lastError, lastValue, sessionWrites, reconnectedWrites>>
cancelVars == <<cancelledAt, onReconnectedCallsAtCancel>>
probeVars == <<lastAnswer, lastBackoff, lastDelay>>
engineVars == <<codeVars, runtimeVars, callVars, timerFirings, outcomeVars, cancelVars,
                probeVars>>
aggregatorVars == <<state, failures, backend, console,
                    aggregatorCalls, lastCall, lastFailure, isOfflineResult,
                    lastBackendArg>>
apiVars == <<apiCalls, lastApiError, apiResult>>
vars == <<engineVars, aggregatorVars, apiVars>>

(***************************************************************************)
(* Values of the OfflineState singleton.                                   *)
(***************************************************************************)
NONE == "undefined"     \* an optional field of OfflineFailure that is absent

\* ERROR_DESCRIPTIONS
ERROR_DESCRIPTIONS ==
    [c \in {"ECONNREFUSED", "ENOTFOUND", "ETIMEDOUT", "ECONNRESET", "EHOSTUNREACH",
            "ENETUNREACH", "401", "403", "404", "500", "502", "503"} |->
        CASE c = "ECONNREFUSED" -> "server not accepting connections"
          [] c = "ENOTFOUND" -> "server hostname not found"
          [] c = "ETIMEDOUT" -> "connection timed out"
          [] c = "ECONNRESET" -> "connection reset by server"
          [] c = "EHOSTUNREACH" -> "server host unreachable"
          [] c = "ENETUNREACH" -> "network unreachable"
          [] c = "401" -> "authentication failed - run happy auth"
          [] c = "403" -> "access forbidden"
          [] c = "404" -> "endpoint not found, check server deployment"
          [] c = "500" -> "server internal error"
          [] c = "502" -> "bad gateway"
          [] c = "503" -> "service unavailable"]

\* backend labels handed to setBackend and printOfflineWarning
Backends == {"Claude", "Codex"}

\* OfflineFailure records the callers report (caller, which nothing reads, is
\* left out): two reports per API operation that differ in code, url and
\* details, one with a code that is not in the table, one with no code
FailureInputs ==
    { [operation |-> "Session creation", errorCode |-> "404",
       url |-> "https://server/v1/sessions", details |-> <<>>],
      [operation |-> "Session creation", errorCode |-> "ECONNREFUSED",
       url |-> NONE, details |-> <<"check the server", "retrying">>],
      [operation |-> "Machine registration", errorCode |-> "ECONNREFUSED",
       url |-> "https://server/v1/machines", details |-> <<"machine offline">>],
      [operation |-> "Machine registration", errorCode |-> "EWEIRD",
       url |-> NONE, details |-> <<>>],
      [operation |-> "Push tokens", errorCode |-> NONE,
       url |-> NONE, details |-> <<>>] }

\* the report of printOfflineWarning
ServerConnectionFailure ==
    [operation |-> "Server connection", errorCode |-> NONE, url |-> NONE, details |-> <<>>]

NoFailure == [operation |-> NONE, errorCode |-> NONE, url |-> NONE, details |-> <<>>]

(***************************************************************************)
(* Values of ApiClient.getOrCreateSession (api/api.ts).                    *)
(***************************************************************************)
\* NETWORK_ERROR_CODES
NETWORK_ERROR_CODES ==
    {"ECONNREFUSED", "ENOTFOUND", "ETIMEDOUT", "ECONNRESET", "EHOSTUNREACH", "ENETUNREACH"}

\* what the try block of getOrCreateSession may throw: error.code (NONE: no
\* code, or a code of undefined), whether axios.isAxiosError recognises the
\* error, and error.response?.status (NoResponse: no response).  A thrown
\* value that is no object behaves as the error with no code and no response.
ApiErrorCodes == {NONE, "", "ECONNREFUSED", "ENETUNREACH", "EPIPE"}
ApiStatuses == {NoResponse, 401, 404, 499, 500, 503}
ApiErrors == [code : ApiErrorCodes, isAxiosError : BOOLEAN, status : ApiStatuses]
NoApiError == [code |-> NONE, isAxiosError |-> FALSE, status |-> NoAnswer]

\* url of the failure report: configuration.serverUrl + '/v1/sessions'
SessionsUrl == "https://server/v1/sessions"

\* the message of the Error getOrCreateSession throws, up to error.message
SessionErrorPrefix == "Failed to get or create session: "

\* no request of getOrCreateSession has failed yet
ApiInit ==
    /\ apiCalls = 0
    /\ lastApiError = NoApiError
    /\ apiResult = [kind |-> "none", value |-> NONE]

\* class OfflineState: the field initialisers
AggregatorInit ==
    /\ state = "online"
    /\ failures = <<>>
    /\ backend = "Claude"
    /\ console = <<>>
    /\ aggregatorCalls = 0
    /\ lastCall = "none"
    /\ lastFailure = NoFailure
    /\ isOfflineResult = FALSE
    /\ lastBackendArg = NONE

(***************************************************************************)
(* Where the engine is, in the words of the state machine of the header    *)
(* comment.  "stopped": nothing pending, nothing in flight.                *)
(***************************************************************************)
Phase ==
    IF awaitingHealthCheck > 0 THEN "awaitHealthCheck"
    ELSE IF awaitingOnReconnected > 0 THEN "awaitOnReconnected"
    ELSE IF timers # {} THEN (IF timerFirings = 0 THEN "idle" ELSE "retryPending")
    ELSE "stopped"

(***************************************************************************)
(* The conditions of attemptReconnect.                                     *)
(***************************************************************************)
\* line 172: if (reconnected || cancelled) return;
AttemptGuard == ~(reconnected \/ cancelled)

\* line 179 left out: the attempt goes on whatever cancelled is
ProceedAfterHealthCheck_always == TRUE

\* line 179, inverted by a slip
ProceedAfterHealthCheck_inverted == cancelled

\* line 179: if (cancelled) return;   (after await healthCheck())
ProceedAfterHealthCheck == ~cancelled

\* line 187, inverted by a slip
ProceedAfterOnReconnected_inverted == cancelled

\* line 187 left out: success is recorded whatever cancelled is
ProceedAfterOnReconnected_always == TRUE

\* line 187: if (cancelled) return;   (after await config.onReconnected())
ProceedAfterOnReconnected == ~cancelled

\* line 196 taking every 4xx of the model for an authentication failure
IsAuthError_4xx(e) == e.isAxiosError /\ e.status \in {401, 403}

\* line 196 with the wrong status code
IsAuthError_403(e) == e.isAxiosError /\ e.status = 403

\* line 196: axios.isAxiosError(e) && e.response?.status === 401
IsAuthError(e) == e.isAxiosError /\ e.status = 401

\* line 209 taking the 10 of line 205 for a retry limit
ShouldSchedule_limited == ~cancelled /\ failureCount < BackoffMaxFailureCount

\* line 209 left out: the retry is scheduled whatever cancelled is
ShouldSchedule_always == TRUE

\* line 209: if (!cancelled) { timeoutId = setTimeout(...) }
ShouldSchedule == ~cancelled

(***************************************************************************)
(* startOfflineReconnection: the closure variables and the first timer.    *)
(***************************************************************************)
\* the closure variables of a fresh handle and its first timer
EngineInit ==
    /\ reconnected = FALSE
    /\ session = NULL
    /\ failureCount = 0
    /\ cancelled = FALSE
    /\ hasCleanup \in BOOLEAN
    \* timeoutId = setTimeout(attemptReconnect, initialDelayMs)
    /\ timers = {1}
    /\ timeoutId = 1
    /\ nextTimer = 2
    /\ awaitingHealthCheck = 0
    /\ awaitingOnReconnected = 0
    /\ healthCheckCalls = 0
    /\ onReconnectedCalls = 0
    /\ onReconnectedThrows = 0
    /\ notifications = <<>>
    /\ cleanupCalls = 0
    /\ cancelCalls = 0
    /\ timerFirings = 0
    /\ lastOutcome = "none"
    /\ lastError = NoError
    /\ lastValue = NULL
    /\ sessionWrites = 0
    /\ reconnectedWrites = 0
    /\ cancelledAt = "never"
    /\ onReconnectedCallsAtCancel = 0
    /\ lastAnswer = NoAnswer
    /\ lastBackoff = <<>>
    /\ lastDelay = 0

\* the first attempt started by a direct call instead of a timer
Init_immediate ==
    /\ reconnected = FALSE
    /\ session = NULL
    /\ failureCount = 0
    /\ cancelled = FALSE
    /\ hasCleanup \in BOOLEAN
    /\ timers = {}
    /\ timeoutId = NoTimer
    /\ nextTimer = 1
    /\ awaitingHealthCheck = 1
    /\ awaitingOnReconnected = 0
    /\ healthCheckCalls = 1
    /\ onReconnectedCalls = 0
    /\ onReconnectedThrows = 0
    /\ notifications = <<>>
    /\ cleanupCalls = 0
    /\ cancelCalls = 0
    /\ timerFirings = 0
    /\ lastOutcome = "none"
    /\ lastError = NoError
    /\ lastValue = NULL
    /\ sessionWrites = 0
    /\ reconnectedWrites = 0
    /\ cancelledAt = "never"
    /\ onReconnectedCallsAtCancel = 0
    /\ lastAnswer = NoAnswer
    /\ lastBackoff = <<>>
    /\ lastDelay = 0
    /\ AggregatorInit
    /\ ApiInit

Init ==
    /\ EngineInit
    /\ AggregatorInit
    /\ ApiInit

(***************************************************************************)
(* A pending timer fires: attemptReconnect runs up to await healthCheck(). *)
(***************************************************************************)
\* the timer armed with setInterval: it stays in the queue when it fires
TimerFires_interval(id) ==
    /\ id \in timers
    /\ UNCHANGED timers
    /\ timerFirings' = timerFirings + 1
    /\ UNCHANGED <<probeVars, aggregatorVars, apiVars>>
    /\ IF AttemptGuard
       THEN /\ healthCheckCalls' = healthCheckCalls + 1
            /\ awaitingHealthCheck' = awaitingHealthCheck + 1
       ELSE UNCHANGED <<healthCheckCalls, awaitingHealthCheck>>
    /\ UNCHANGED <<codeVars, nextTimer, awaitingOnReconnected, onReconnectedCalls,
                   onReconnectedThrows, notifications, cleanupCalls, cancelCalls,
                   outcomeVars, cancelVars>>

TimerFires(id) ==
    /\ id \in timers
    /\ timers' = timers \ {id}
    /\ timerFirings' = timerFirings + 1
    /\ UNCHANGED <<probeVars, aggregatorVars, apiVars>>
    /\ IF AttemptGuard
       THEN /\ healthCheckCalls' = healthCheckCalls + 1
            /\ awaitingHealthCheck' = awaitingHealthCheck + 1
       ELSE UNCHANGED <<healthCheckCalls, awaitingHealthCheck>>
    /\ UNCHANGED <<codeVars, nextTimer, awaitingOnReconnected, onReconnectedCalls,
                   onReconnectedThrows, notifications, cleanupCalls, cancelCalls,
                   outcomeVars, cancelVars>>

(***************************************************************************)
(* The catch block of attemptReconnect, for a thrown error e.              *)
(***************************************************************************)
\* the catch block without the return of line 199: a 401 is notified and retried
Catch_fallthrough(e) ==
    /\ notifications' = IF IsAuthError(e) THEN Append(notifications, AuthFailedMessage)
                        ELSE notifications
    /\ failureCount' = failureCount + 1
    /\ IF ShouldSchedule
       THEN /\ timeoutId' = nextTimer
            /\ timers' = timers \cup {nextTimer}
            /\ nextTimer' = nextTimer + 1
       ELSE UNCHANGED <<timeoutId, timers, nextTimer>>
    /\ lastBackoff' = BackoffArgs(failureCount')
    /\ \E j \in Jitters : lastDelay' = DelayOf(lastBackoff', j)

\* a catch block that handles axios errors only and rethrows the others
Catch_axiosOnly(e) ==
    IF IsAuthError(e)
    THEN /\ notifications' = Append(notifications, AuthFailedMessage)
         /\ UNCHANGED <<failureCount, timeoutId, timers, nextTimer, lastBackoff, lastDelay>>
    ELSE IF e.isAxiosError
    THEN /\ failureCount' = failureCount + 1
         /\ lastBackoff' = BackoffArgs(failureCount')
         /\ \E j \in Jitters : lastDelay' = DelayOf(lastBackoff', j)
         /\ IF ShouldSchedule
            THEN /\ timeoutId' = nextTimer
                 /\ timers' = timers \cup {nextTimer}
                 /\ nextTimer' = nextTimer + 1
            ELSE UNCHANGED <<timeoutId, timers, nextTimer>>
         /\ UNCHANGED notifications
    ELSE UNCHANGED <<failureCount, timeoutId, timers, nextTimer, lastBackoff, lastDelay, notifications>>

\* line 204 moved into the test of line 209: a failure seen after cancel()
\* is not counted
Catch_countsOnlyScheduled(e) ==
    IF IsAuthError(e)
    THEN /\ notifications' = Append(notifications, AuthFailedMessage)
         /\ UNCHANGED <<failureCount, timeoutId, timers, nextTimer, lastBackoff, lastDelay>>
    ELSE /\ IF ShouldSchedule
            THEN /\ failureCount' = failureCount + 1
                 /\ lastBackoff' = BackoffArgs(failureCount')
                 /\ \E j \in Jitters : lastDelay' = DelayOf(lastBackoff', j)
                 /\ timeoutId' = nextTimer
                 /\ timers' = timers \cup {nextTimer}
                 /\ nextTimer' = nextTimer + 1
            ELSE UNCHANGED <<failureCount, timeoutId, timers, nextTimer, lastBackoff,
                             lastDelay>>
         /\ UNCHANGED notifications

Catch(e) ==
    IF IsAuthError(e)
    THEN /\ notifications' = Append(notifications, AuthFailedMessage)
         /\ UNCHANGED <<failureCount, timeoutId, timers, nextTimer, lastBackoff, lastDelay>>
    ELSE /\ failureCount' = failureCount + 1
         /\ lastBackoff' = BackoffArgs(failureCount')
         /\ \E j \in Jitters : lastDelay' = DelayOf(lastBackoff', j)
         /\ IF ShouldSchedule
            THEN /\ timeoutId' = nextTimer
                 /\ timers' = timers \cup {nextTimer}
                 /\ nextTimer' = nextTimer + 1
            ELSE UNCHANGED <<timeoutId, timers, nextTimer>>
         /\ UNCHANGED notifications

(***************************************************************************)
(* await healthCheck() resolves: re-check cancelled, invoke onReconnected. *)
(***************************************************************************)
HealthCheckResolved(a) ==
    /\ awaitingHealthCheck > 0
    /\ awaitingHealthCheck' = awaitingHealthCheck - 1
    /\ lastOutcome' = "healthCheckResolved"
    /\ lastAnswer' = a
    /\ IF ProceedAfterHealthCheck
       THEN /\ onReconnectedCalls' = onReconnectedCalls + 1
            /\ awaitingOnReconnected' = awaitingOnReconnected + 1
       ELSE UNCHANGED <<onReconnectedCalls, awaitingOnReconnected>>
    /\ UNCHANGED <<timerFirings, aggregatorVars, apiVars>>
    /\ UNCHANGED <<codeVars, timers, nextTimer, healthCheckCalls, onReconnectedThrows,
                   notifications, cleanupCalls, cancelCalls, lastError, lastValue,
                   sessionWrites, reconnectedWrites, cancelVars, lastBackoff, lastDelay>>

\* an injected healthCheck resolves
HealthCheckResolves == HealthCheckResolved(NoAnswer)

(***************************************************************************)
(* await healthCheck() throws e.                                           *)
(***************************************************************************)
HealthCheckThrew(e, a) ==
    /\ awaitingHealthCheck > 0
    /\ IsAuthError(e) \/ failureCount < MaxFailures
    /\ awaitingHealthCheck' = awaitingHealthCheck - 1
    /\ lastOutcome' = "healthCheckThrew"
    /\ lastError' = e
    /\ lastAnswer' = a
    /\ Catch(e)
    /\ UNCHANGED <<timerFirings, aggregatorVars, apiVars>>
    /\ UNCHANGED <<reconnected, session, cancelled, hasCleanup, awaitingOnReconnected,
                   healthCheckCalls, onReconnectedCalls, onReconnectedThrows,
                   cleanupCalls, cancelCalls, lastValue, sessionWrites,
                   reconnectedWrites, cancelVars>>

\* an injected healthCheck throws e
HealthCheckThrows(e) == HealthCheckThrew(e, NoAnswer)

(***************************************************************************)
(* await config.onReconnected() resolves with v: session is assigned, then *)
(* cancelled is re-checked, then success is recorded and notified.         *)
(***************************************************************************)
\* a resolved null session thrown away and retried as if the callback had failed
OnReconnectedResolves_retryOnNull(v) ==
    /\ awaitingOnReconnected > 0
    /\ v = NULL => failureCount < MaxFailures
    /\ awaitingOnReconnected' = awaitingOnReconnected - 1
    /\ lastOutcome' = "onReconnectedResolved"
    /\ lastValue' = v
    /\ session' = v
    /\ sessionWrites' = sessionWrites + 1
    /\ IF v = NULL
       THEN /\ failureCount' = failureCount + 1
            /\ timeoutId' = nextTimer
            /\ timers' = timers \cup {nextTimer}
            /\ nextTimer' = nextTimer + 1
            /\ UNCHANGED <<reconnected, reconnectedWrites, notifications>>
       ELSE /\ IF ProceedAfterOnReconnected
               THEN /\ reconnected' = TRUE
                    /\ reconnectedWrites' = reconnectedWrites + 1
                    /\ notifications' = Append(notifications, SuccessMessage)
               ELSE UNCHANGED <<reconnected, reconnectedWrites, notifications>>
            /\ UNCHANGED <<failureCount, timeoutId, timers, nextTimer>>
    /\ UNCHANGED <<timerFirings, aggregatorVars, apiVars>>
    /\ UNCHANGED <<cancelled, hasCleanup, awaitingHealthCheck, healthCheckCalls,
                   onReconnectedCalls, onReconnectedThrows, cleanupCalls, cancelCalls,
                   lastError, cancelVars, probeVars>>

\* success recorded only when the callback resolved with a session
OnReconnectedResolves_requiresSession(v) ==
    /\ awaitingOnReconnected > 0
    /\ awaitingOnReconnected' = awaitingOnReconnected - 1
    /\ lastOutcome' = "onReconnectedResolved"
    /\ lastValue' = v
    /\ session' = v
    /\ sessionWrites' = sessionWrites + 1
    /\ IF ProceedAfterOnReconnected /\ v \notin {NULL, UNDEFINED}
       THEN /\ reconnected' = TRUE
            /\ reconnectedWrites' = reconnectedWrites + 1
            /\ notifications' = Append(notifications, SuccessMessage)
       ELSE UNCHANGED <<reconnected, reconnectedWrites, notifications>>
    /\ UNCHANGED <<timerFirings, aggregatorVars, apiVars>>
    /\ UNCHANGED <<timeoutId, failureCount, cancelled, hasCleanup, timers, nextTimer,
                   awaitingHealthCheck, healthCheckCalls, onReconnectedCalls,
                   onReconnectedThrows, cleanupCalls, cancelCalls, lastError,
                   cancelVars, probeVars>>

\* the engine calling connectionState.recover() when it records the success
OnReconnectedResolves_recovers(v) ==
    /\ awaitingOnReconnected > 0
    /\ awaitingOnReconnected' = awaitingOnReconnected - 1
    /\ lastOutcome' = "onReconnectedResolved"
    /\ lastValue' = v
    /\ session' = v
    /\ sessionWrites' = sessionWrites + 1
    /\ IF ProceedAfterOnReconnected
       THEN /\ reconnected' = TRUE
            /\ reconnectedWrites' = reconnectedWrites + 1
            /\ notifications' = Append(notifications, SuccessMessage)
            /\ state' = "online"
            /\ failures' = <<>>
       ELSE UNCHANGED <<reconnected, reconnectedWrites, notifications, state, failures>>
    /\ UNCHANGED <<timerFirings, backend, console, aggregatorCalls, lastCall, lastFailure,
                   isOfflineResult, lastBackendArg, apiVars>>
    /\ UNCHANGED <<timeoutId, failureCount, cancelled, hasCleanup, timers, nextTimer,
                   awaitingHealthCheck, healthCheckCalls, onReconnectedCalls,
                   onReconnectedThrows, cleanupCalls, cancelCalls, lastError,
                   cancelVars, probeVars>>

\* a run that completed on a cancelled handle arms a timer to try again
OnReconnectedResolves_retriesWhenCancelled(v) ==
    /\ awaitingOnReconnected > 0
    /\ awaitingOnReconnected' = awaitingOnReconnected - 1
    /\ lastOutcome' = "onReconnectedResolved"
    /\ lastValue' = v
    /\ session' = v
    /\ sessionWrites' = sessionWrites + 1
    /\ IF ProceedAfterOnReconnected
       THEN /\ reconnected' = TRUE
            /\ reconnectedWrites' = reconnectedWrites + 1
            /\ notifications' = Append(notifications, SuccessMessage)
            /\ UNCHANGED <<timeoutId, timers, nextTimer>>
       ELSE /\ timeoutId' = nextTimer
            /\ timers' = timers \cup {nextTimer}
            /\ nextTimer' = nextTimer + 1
            /\ UNCHANGED <<reconnected, reconnectedWrites, notifications>>
    /\ UNCHANGED <<timerFirings, aggregatorVars, apiVars>>
    /\ UNCHANGED <<failureCount, cancelled, hasCleanup,
                   awaitingHealthCheck, healthCheckCalls, onReconnectedCalls,
                   onReconnectedThrows, cleanupCalls, cancelCalls, lastError,
                   cancelVars, probeVars>>

OnReconnectedResolves(v) ==
    /\ awaitingOnReconnected > 0
    /\ awaitingOnReconnected' = awaitingOnReconnected - 1
    /\ lastOutcome' = "onReconnectedResolved"
    /\ lastValue' = v
    /\ session' = v
    /\ sessionWrites' = sessionWrites + 1
    /\ IF ProceedAfterOnReconnected
       THEN /\ reconnected' = TRUE
            /\ reconnectedWrites' = reconnectedWrites + 1
            /\ notifications' = Append(notifications, SuccessMessage)
       ELSE UNCHANGED <<reconnected, reconnectedWrites, notifications>>
    /\ UNCHANGED <<timerFirings, aggregatorVars, apiVars>>
    /\ UNCHANGED <<timeoutId, failureCount, cancelled, hasCleanup, timers, nextTimer,
                   awaitingHealthCheck, healthCheckCalls, onReconnectedCalls,
                   onReconnectedThrows, cleanupCalls, cancelCalls, lastError,
                   cancelVars, probeVars>>

(***************************************************************************)
(* await config.onReconnected() throws e.                                  *)
(***************************************************************************)
\* a callback failure retried without counting it as a failure
OnReconnectedThrows_uncounted(e) ==
    /\ awaitingOnReconnected > 0
    /\ IsAuthError(e) \/ failureCount < MaxFailures
    /\ awaitingOnReconnected' = awaitingOnReconnected - 1
    /\ onReconnectedThrows' = onReconnectedThrows + 1
    /\ lastOutcome' = "onReconnectedThrew"
    /\ lastError' = e
    /\ IF IsAuthError(e)
       THEN /\ notifications' = Append(notifications, AuthFailedMessage)
            /\ UNCHANGED <<timeoutId, timers, nextTimer, lastBackoff, lastDelay>>
       ELSE /\ lastBackoff' = BackoffArgs(1)
            /\ \E j \in Jitters : lastDelay' = DelayOf(lastBackoff', j)
            /\ IF ShouldSchedule
               THEN /\ timeoutId' = nextTimer
                    /\ timers' = timers \cup {nextTimer}
                    /\ nextTimer' = nextTimer + 1
               ELSE UNCHANGED <<timeoutId, timers, nextTimer>>
            /\ UNCHANGED notifications
    /\ UNCHANGED <<timerFirings, aggregatorVars, apiVars>>
    /\ UNCHANGED <<reconnected, session, cancelled, hasCleanup, awaitingHealthCheck,
                   healthCheckCalls, onReconnectedCalls, cleanupCalls, cancelCalls,
                   lastValue, sessionWrites, reconnectedWrites, cancelVars,
                   lastAnswer, failureCount>>

OnReconnectedThrows(e) ==
    /\ awaitingOnReconnected > 0
    /\ IsAuthError(e) \/ failureCount < MaxFailures
    /\ awaitingOnReconnected' = awaitingOnReconnected - 1
    /\ onReconnectedThrows' = onReconnectedThrows + 1
    /\ lastOutcome' = "onReconnectedThrew"
    /\ lastError' = e
    /\ Catch(e)
    /\ UNCHANGED <<timerFirings, aggregatorVars, apiVars>>
    /\ UNCHANGED <<reconnected, session, cancelled, hasCleanup, awaitingHealthCheck,
                   healthCheckCalls, onReconnectedCalls, cleanupCalls, cancelCalls,
                   lastValue, sessionWrites, reconnectedWrites, cancelVars,
                   lastAnswer>>

(***************************************************************************)
(* handle.cancel()                                                         *)
(***************************************************************************)
\* clearTimeout(id): a timer that already fired is not in the queue any more
ClearTimeout(id) == timers \ {id}

\* onCleanup skipped once the handle has reconnected
CleanupInvocations_unlessReconnected == IF hasCleanup /\ ~reconnected THEN 1 ELSE 0

\* onCleanup invoked by the first cancel() only
CleanupInvocations_once == IF hasCleanup /\ ~cancelled THEN 1 ELSE 0

\* config.onCleanup?.()
CleanupInvocations == IF hasCleanup THEN 1 ELSE 0

Cancel ==
    /\ cancelCalls < MaxCancels
    /\ cancelCalls' = cancelCalls + 1
    /\ cancelled' = TRUE
    /\ IF timeoutId # NoTimer
       THEN /\ timers' = ClearTimeout(timeoutId)
            /\ timeoutId' = NoTimer
       ELSE UNCHANGED <<timers, timeoutId>>
    /\ cleanupCalls' = cleanupCalls + CleanupInvocations
    /\ IF cancelledAt = "never"
       THEN /\ cancelledAt' = Phase
            /\ onReconnectedCallsAtCancel' = onReconnectedCalls
       ELSE UNCHANGED cancelVars
    /\ UNCHANGED <<timerFirings, aggregatorVars, apiVars>>
    /\ UNCHANGED <<reconnected, session, failureCount, hasCleanup, nextTimer,
                   awaitingHealthCheck, awaitingOnReconnected, healthCheckCalls,
                   onReconnectedCalls, onReconnectedThrows, notifications,
                   outcomeVars, probeVars>>

Next ==
    \/ \E id \in timers : TimerFires(id)
    \/ HealthCheckResolves
    \/ \E e \in Errors : HealthCheckThrows(e)
    \/ \E v \in SessionValues : OnReconnectedResolves(v)
    \/ \E e \in Errors : OnReconnectedThrows(e)
    \/ Cancel

Spec == Init /\ [][Next]_vars

\* an await of healthCheck() settles, one way or the other
HealthCheckSettles == HealthCheckResolves \/ \E e \in Errors : HealthCheckThrows(e)

\* an await of config.onReconnected() settles, one way or the other
OnReconnectedSettles ==
    \/ \E v \in SessionValues : OnReconnectedResolves(v)
    \/ \E e \in Errors : OnReconnectedThrows(e)

\* the engine on a runtime whose event loop runs every due timer and on which
\* every awaited call settles (the default health check has a timeout)
FairSpec ==
    /\ Spec
    /\ WF_vars(\E id \in timers : TimerFires(id))
    /\ WF_vars(HealthCheckSettles)
    /\ WF_vars(OnReconnectedSettles)

(***************************************************************************)
(* The default health check (no config.healthCheck): a GET of /v1/sessions *)
(* that axios resolves when validateStatus accepts the response status and *)
(* rejects otherwise, and rejects with no response on a network error or   *)
(* on the timeout.                                                         *)
(***************************************************************************)
\* validateStatus taking a client error for a failed probe
ValidateStatus_below400(status) == status < 400

\* line 159: validateStatus: (status) => status < 500
ValidateStatus(status) == status < 500

\* the AxiosError of a rejected GET: its response.status, if there is a response
AxiosErrorOf(a) == [isAxiosError |-> TRUE, status |-> a]

\* await healthCheck() settles with the server's answer a
DefaultHealthCheckSettles(a) ==
    IF a # NoResponse /\ ValidateStatus(a)
    THEN HealthCheckResolved(a)
    ELSE HealthCheckThrew(AxiosErrorOf(a), a)

DefaultHealthCheckNext ==
    \/ \E id \in timers : TimerFires(id)
    \/ \E a \in ServerAnswers : DefaultHealthCheckSettles(a)
    \/ \E v \in SessionValues : OnReconnectedResolves(v)
    \/ \E e \in Errors : OnReconnectedThrows(e)
    \/ Cancel

DefaultHealthCheckSpec == Init /\ [][DefaultHealthCheckNext]_vars

TypeOK ==
    /\ reconnected \in BOOLEAN
    /\ cancelled \in BOOLEAN
    /\ hasCleanup \in BOOLEAN
    /\ session \in SessionValues
    /\ failureCount \in 0..(MaxFailures + 1)
    /\ timeoutId \in 0..(MaxFailures + 2)
    /\ timers \subseteq 1..(MaxFailures + 2)
    /\ awaitingHealthCheck \in Nat
    /\ awaitingOnReconnected \in Nat

(***************************************************************************)
(* OfflineState: the Map of failures.                                      *)
(***************************************************************************)
\* the position of operation op in the Map, 0 when it is not a key
KeyIndex(m, op) ==
    IF \E i \in 1..Len(m) : m[i].operation = op
    THEN CHOOSE i \in 1..Len(m) : m[i].operation = op
    ELSE 0

\* a set() that forgets the records stored before
MapSet_onlyLatest(m, f) == <<f>>

\* a set() that never finds the key
MapSet_append(m, f) == Append(m, f)

\* this.failures.set(failure.operation, failure): an existing key keeps its
\* place and takes the new record, a new key goes to the end
MapSet(m, f) ==
    IF KeyIndex(m, f.operation) # 0
    THEN [i \in 1..Len(m) |-> IF i = KeyIndex(m, f.operation) THEN f ELSE m[i]]
    ELSE Append(m, f)

(***************************************************************************)
(* OfflineState.print: one warning line, then one line per detail.  A line *)
(* is a record: its kind, its parts (the entries a warning line joins      *)
(* with "; ", the text of a detail line) and its text, the string handed   *)
(* to console.log (the warning sign that opens the warning line is left    *)
(* out and the arrow of a detail line is written ->).                      *)
(***************************************************************************)
\* JavaScript truthiness of an optional string
Truthy(x) == x # NONE /\ x # ""

\* a code that is not in the table described by nothing
DescriptionOf_blank(code) ==
    IF code \in DOMAIN ERROR_DESCRIPTIONS THEN ERROR_DESCRIPTIONS[code] ELSE ""

\* ERROR_DESCRIPTIONS[f.errorCode] || 'unknown error'
DescriptionOf(code) ==
    IF code \in DOMAIN ERROR_DESCRIPTIONS THEN ERROR_DESCRIPTIONS[code] ELSE "unknown error"

\* lines 319-323: the entry of one failure in the summary
RenderFailure(f) ==
    f.operation \o " failed: "
        \o (IF Truthy(f.errorCode)
            THEN f.errorCode \o " - " \o DescriptionOf(f.errorCode)
            ELSE "unknown error")
        \o (IF Truthy(f.url) THEN " at " \o f.url ELSE "")

\* lines 329-330: [...this.failures.values()].flatMap(f => f.details || [])
RECURSIVE AllDetails(_)
AllDetails(m) ==
    IF m = <<>> THEN <<>> ELSE Head(m).details \o AllDetails(Tail(m))

\* Array.prototype.join
RECURSIVE JoinWith(_, _)
JoinWith(parts, sep) ==
    IF parts = <<>> THEN ""
    ELSE IF Len(parts) = 1 THEN parts[1]
    ELSE parts[1] \o sep \o JoinWith(Tail(parts), sep)

\* line 326: what the warning line says before the summary
WarningPrefix ==
    "Happy server unreachable, offline mode with auto-reconnect enabled - error details: "

\* line 331: the indent and the arrow of a detail line (the colour chalk gives
\* the line is left out)
DetailPrefix == "   -> "

WarningLine(m) ==
    [kind |-> "warning", parts |-> [i \in 1..Len(m) |-> RenderFailure(m[i])],
     text |-> WarningPrefix \o JoinWith([i \in 1..Len(m) |-> RenderFailure(m[i])], "; ")]

DetailLine(d) == [kind |-> "detail", parts |-> <<d>>, text |-> DetailPrefix \o d]

PrintLines(m) ==
    <<WarningLine(m)>> \o [i \in 1..Len(AllDetails(m)) |-> DetailLine(AllDetails(m)[i])]

(***************************************************************************)
(* OfflineState.fail                                                       *)
(***************************************************************************)
\* line 291 left out: every report switches the mode and prints
FirstFailure_always == TRUE

\* line 291: if (this.state === 'online')
FirstFailure == state = "online"

\* print() called before the record is stored
FailBody_printsFirst(f) ==
    /\ failures' = MapSet(failures, f)
    /\ IF FirstFailure
       THEN /\ state' = "offline"
            /\ console' = console \o PrintLines(failures)
       ELSE UNCHANGED <<state, console>>

\* the body of fail(failure)
FailBody(f) ==
    /\ failures' = MapSet(failures, f)
    /\ IF FirstFailure
       THEN /\ state' = "offline"
            /\ console' = console \o PrintLines(failures')
       ELSE UNCHANGED <<state, console>>

Fail(f) ==
    /\ aggregatorCalls < MaxAggregatorCalls
    /\ aggregatorCalls' = aggregatorCalls + 1
    /\ lastCall' = "fail"
    /\ lastFailure' = f
    /\ FailBody(f)
    /\ UNCHANGED <<backend, isOfflineResult, lastBackendArg, engineVars, apiVars>>

(***************************************************************************)
(* OfflineState.recover                                                    *)
(***************************************************************************)
\* recover() that clears the failures and leaves the mode
Recover_keepsMode ==
    /\ aggregatorCalls < MaxAggregatorCalls
    /\ aggregatorCalls' = aggregatorCalls + 1
    /\ lastCall' = "recover"
    /\ failures' = <<>>
    /\ UNCHANGED <<state, backend, console, lastFailure, isOfflineResult, lastBackendArg, engineVars, apiVars>>

\* recover() written as reset(): the backend label goes back to its default
Recover_resetsBackend ==
    /\ aggregatorCalls < MaxAggregatorCalls
    /\ aggregatorCalls' = aggregatorCalls + 1
    /\ lastCall' = "recover"
    /\ state' = "online"
    /\ failures' = <<>>
    /\ backend' = "Claude"
    /\ UNCHANGED <<console, lastFailure, isOfflineResult, lastBackendArg, engineVars, apiVars>>

Recover ==
    /\ aggregatorCalls < MaxAggregatorCalls
    /\ aggregatorCalls' = aggregatorCalls + 1
    /\ lastCall' = "recover"
    /\ state' = "online"
    /\ failures' = <<>>
    /\ UNCHANGED <<backend, console, lastFailure, isOfflineResult, lastBackendArg, engineVars, apiVars>>

(***************************************************************************)
(* OfflineState.setBackend, isOffline, reset                               *)
(***************************************************************************)
SetBackend(name) ==
    /\ aggregatorCalls < MaxAggregatorCalls
    /\ aggregatorCalls' = aggregatorCalls + 1
    /\ lastCall' = "setBackend"
    /\ backend' = name
    /\ lastBackendArg' = name
    /\ UNCHANGED <<state, failures, console, lastFailure, isOfflineResult, engineVars,
                   apiVars>>

IsOffline ==
    /\ aggregatorCalls < MaxAggregatorCalls
    /\ aggregatorCalls' = aggregatorCalls + 1
    /\ lastCall' = "isOffline"
    /\ isOfflineResult' = (state = "offline")
    /\ UNCHANGED <<state, failures, backend, console, lastFailure, lastBackendArg, engineVars, apiVars>>

\* reset() without this.failures.clear()
Reset_keepsFailures ==
    /\ aggregatorCalls < MaxAggregatorCalls
    /\ aggregatorCalls' = aggregatorCalls + 1
    /\ lastCall' = "reset"
    /\ state' = "online"
    /\ backend' = "Claude"
    /\ UNCHANGED <<failures, console, lastFailure, isOfflineResult, lastBackendArg, engineVars, apiVars>>

\* reset() written as recover(): the backend label is kept
Reset_keepsBackend ==
    /\ aggregatorCalls < MaxAggregatorCalls
    /\ aggregatorCalls' = aggregatorCalls + 1
    /\ lastCall' = "reset"
    /\ state' = "online"
    /\ failures' = <<>>
    /\ UNCHANGED <<backend, console, lastFailure, isOfflineResult, lastBackendArg, engineVars, apiVars>>

Reset ==
    /\ aggregatorCalls < MaxAggregatorCalls
    /\ aggregatorCalls' = aggregatorCalls + 1
    /\ lastCall' = "reset"
    /\ state' = "online"
    /\ failures' = <<>>
    /\ backend' = "Claude"
    /\ UNCHANGED <<console, lastFailure, isOfflineResult, lastBackendArg, engineVars, apiVars>>

(***************************************************************************)
(* printOfflineWarning(backendName): setBackend, then fail.                *)
(***************************************************************************)
\* a warning that leaves the singleton alone when it is offline already
PrintOfflineWarning_skipsWhenOffline(backendName) ==
    /\ aggregatorCalls < MaxAggregatorCalls
    /\ aggregatorCalls' = aggregatorCalls + 1
    /\ lastCall' = "printOfflineWarning"
    /\ lastFailure' = ServerConnectionFailure
    /\ lastBackendArg' = backendName
    /\ IF state = "online"
       THEN /\ backend' = backendName
            /\ FailBody(ServerConnectionFailure)
       ELSE UNCHANGED <<backend, failures, state, console>>
    /\ UNCHANGED <<isOfflineResult, engineVars, apiVars>>

PrintOfflineWarning(backendName) ==
    /\ aggregatorCalls < MaxAggregatorCalls
    /\ aggregatorCalls' = aggregatorCalls + 1
    /\ lastCall' = "printOfflineWarning"
    /\ lastFailure' = ServerConnectionFailure
    /\ backend' = backendName
    /\ FailBody(ServerConnectionFailure)
    /\ lastBackendArg' = backendName
    /\ UNCHANGED <<isOfflineResult, engineVars, apiVars>>

AggregatorNext ==
    \/ \E f \in FailureInputs : Fail(f)
    \/ Recover
    \/ \E name \in Backends : SetBackend(name)
    \/ IsOffline
    \/ Reset
    \/ \E name \in Backends : PrintOfflineWarning(name)

AggregatorSpec == Init /\ [][AggregatorNext]_vars

AggregatorTypeOK ==
    /\ state \in {"online", "offline"}
    /\ backend \in Backends
    /\ Len(failures) <= Cardinality(FailureInputs) + 1
    /\ \A i \in 1..Len(console) : console[i].kind \in {"warning", "detail"}
    /\ isOfflineResult \in BOOLEAN

(***************************************************************************)
(* OfflineState.print as a function of the Map: it is applied to every Map *)
(* of up to MaxPrintRecords records with distinct operations.              *)
(***************************************************************************)
\* the text of the detail line of getOrCreateSession's 5xx report
ServerErrorDetail == "Server encountered an error, will retry automatically"

\* the records the Maps are made of
PrintInputs ==
    FailureInputs \cup
    { ServerConnectionFailure,
      [operation |-> "Session creation", errorCode |-> "503",
       url |-> SessionsUrl, details |-> <<ServerErrorDetail>>],
      [operation |-> "Vendor token", errorCode |-> "",
       url |-> "https://server/v1/connect", details |-> <<>>] }

FailureMaps ==
    { m \in UNION { [1..n -> PrintInputs] : n \in 1..MaxPrintRecords } :
        \A i, j \in DOMAIN m : m[i].operation = m[j].operation => i = j }

PrintInit ==
    /\ EngineInit
    /\ ApiInit
    /\ state = "offline"
    /\ failures \in FailureMaps
    /\ backend = "Claude"
    /\ console = <<>>
    /\ aggregatorCalls = 0
    /\ lastCall = "none"
    /\ lastFailure = NoFailure
    /\ isOfflineResult = FALSE
    /\ lastBackendArg = NONE

\* this.print()
PrintApplied ==
    /\ console = <<>>
    /\ console' = console \o PrintLines(failures)
    /\ UNCHANGED <<state, failures, backend, aggregatorCalls, lastCall, lastFailure,
                   isOfflineResult, lastBackendArg, engineVars, apiVars>>

PrintNext == PrintApplied

PrintSpec == PrintInit /\ [][PrintNext]_vars

(***************************************************************************)
(* ApiClient.getOrCreateSession: the catch block of a failed request.      *)
(***************************************************************************)
\* isNetworkError taking every defined code for a network error
IsNetworkError_anyCode(code) == code # NONE

\* isNetworkError(code)
IsNetworkError(code) == code # NONE /\ code \in NETWORK_ERROR_CODES

\* api.ts lines 109-112: an axios error or any object whose response.status is 404
Is404Error(e) == (e.isAxiosError /\ e.status = 404) \/ e.status = 404

\* api.ts lines 123-125: axios.isAxiosError(error) && error.response?.status,
\* then status >= 500
Is5xxError(e) == e.isAxiosError /\ e.status # NoResponse /\ e.status >= 500

\* the failure getOrCreateSession reports for a thrown error e
SessionFailureOf(e) ==
    IF IsNetworkError(e.code)
    THEN [operation |-> "Session creation", errorCode |-> e.code,
          url |-> SessionsUrl, details |-> <<>>]
    ELSE IF Is404Error(e)
    THEN [operation |-> "Session creation", errorCode |-> "404",
          url |-> SessionsUrl, details |-> <<>>]
    ELSE [operation |-> "Session creation", errorCode |-> ToString(e.status),
          url |-> SessionsUrl, details |-> <<ServerErrorDetail>>]

\* what the call has done when the catch block is left
ReturnedNull == [kind |-> "returned", value |-> NULL]
ThrewSessionError == [kind |-> "threw", value |-> SessionErrorPrefix]

GetOrCreateSessionFails(e) ==
    /\ apiCalls < MaxApiCalls
    /\ apiCalls' = apiCalls + 1
    /\ lastApiError' = e
    /\ IF IsNetworkError(e.code) \/ Is404Error(e) \/ Is5xxError(e)
       THEN /\ aggregatorCalls' = aggregatorCalls + 1
            /\ lastCall' = "fail"
            /\ lastFailure' = SessionFailureOf(e)
            /\ FailBody(SessionFailureOf(e))
            /\ apiResult' = ReturnedNull
       ELSE /\ apiResult' = ThrewSessionError
            /\ UNCHANGED <<state, failures, console, aggregatorCalls, lastCall,
                           lastFailure>>
    /\ UNCHANGED <<backend, isOfflineResult, lastBackendArg, engineVars>>

ApiNext ==
    \/ \E e \in ApiErrors : GetOrCreateSessionFails(e)
    \/ Recover

ApiSpec == Init /\ [][ApiNext]_vars

(***************************************************************************)
(* ApiClient.getOrCreateMachine: the catch block of a failed request.      *)
(***************************************************************************)
\* what the try block of getOrCreateMachine may throw
MachineErrorCodes == {NONE, "", "ECONNREFUSED", "EPIPE"}
MachineStatuses == {NoResponse, 401, 403, 404, 409, 503}
MachineErrors ==
    [code : MachineErrorCodes, isAxiosError : BOOLEAN, status : MachineStatuses]

\* url of the failure report: configuration.serverUrl + '/v1/machines'
MachinesUrl == "https://server/v1/machines"

\* api.ts line 215: axios.isAxiosError(error) && error.code && isNetworkError(error.code)
IsAxiosNetworkError(e) == e.isAxiosError /\ Truthy(e.code) /\ IsNetworkError(e.code)

\* api.ts line 227: axios.isAxiosError(error) && error.response?.status
HasAxiosStatus(e) == e.isAxiosError /\ e.status # NoResponse

\* the conflict test taking 403 alone for a rejection
IsMachineConflict_403only(status) == status = 403

\* api.ts line 230: status === 403 || status === 409
IsMachineConflict(status) == status = 403 \/ status = 409

\* api.ts lines 232-246: the five lines written when the server rejects the
\* registration (warning sign, arrows and colour as for the offline warning)
RejectionLines(status) ==
    [i \in 1..5 |->
        [kind |-> "rejection", parts |-> <<>>,
         text |-> CASE i = 1 -> "Machine registration rejected by the server with status "
                                  \o ToString(status)
                    [] i = 2 -> DetailPrefix
                                  \o "This machine ID is already registered to another account on the server"
                    [] i = 3 -> DetailPrefix
                                  \o "This usually happens after re-authenticating with a different account"
                    [] i = 4 -> DetailPrefix
                                  \o "Run 'happy doctor clean' to reset local state and generate a new machine ID"
                    [] i = 5 -> DetailPrefix \o "Open a GitHub issue if this problem persists"]]

\* the failure getOrCreateMachine reports for a thrown error e
MachineFailureOf(e) ==
    IF IsAxiosNetworkError(e)
    THEN [operation |-> "Machine registration", errorCode |-> e.code,
          url |-> MachinesUrl, details |-> <<>>]
    ELSE IF e.status >= 500
    THEN [operation |-> "Machine registration", errorCode |-> ToString(e.status),
          url |-> MachinesUrl, details |-> <<ServerErrorDetail>>]
    ELSE [operation |-> "Machine registration", errorCode |-> "404",
          url |-> MachinesUrl, details |-> <<>>]

\* what the call has done when the catch block is left
ReturnedMinimalMachine == [kind |-> "returned", value |-> "minimal machine"]
RethrewError == [kind |-> "threw", value |-> "the caught error"]

\* connectionState.fail(MachineFailureOf(e)); return createMinimalMachine()
ReportMachineFailure(e) ==
    /\ aggregatorCalls' = aggregatorCalls + 1
    /\ lastCall' = "fail"
    /\ lastFailure' = MachineFailureOf(e)
    /\ FailBody(MachineFailureOf(e))
    /\ apiResult' = ReturnedMinimalMachine

GetOrCreateMachineFails(e) ==
    /\ apiCalls < MaxApiCalls
    /\ apiCalls' = apiCalls + 1
    /\ lastApiError' = e
    /\ IF IsAxiosNetworkError(e)
       THEN ReportMachineFailure(e)
       ELSE IF HasAxiosStatus(e) /\ IsMachineConflict(e.status)
       THEN /\ console' = console \o RejectionLines(e.status)
            /\ apiResult' = ReturnedMinimalMachine
            /\ UNCHANGED <<state, failures, aggregatorCalls, lastCall, lastFailure>>
       ELSE IF HasAxiosStatus(e) /\ (e.status >= 500 \/ e.status = 404)
       THEN ReportMachineFailure(e)
       ELSE /\ apiResult' = RethrewError
            /\ UNCHANGED <<state, failures, console, aggregatorCalls, lastCall,
                           lastFailure>>
    /\ UNCHANGED <<backend, isOfflineResult, lastBackendArg, engineVars>>

MachineNext ==
    \/ \E e \in MachineErrors : GetOrCreateMachineFails(e)
    \/ Recover

MachineSpec == Init /\ [][MachineNext]_vars

(***************************************************************************)
(* A handle and the singleton in one process: the steps of the engine      *)
(* interleaved with the host's calls of fail and recover.                  *)
(***************************************************************************)
CombinedNext ==
    \/ \E id \in timers : TimerFires(id)
    \/ HealthCheckResolves
    \/ \E e \in Errors : HealthCheckThrows(e) /\ failureCount' <= MaxCombinedFailures
    \/ \E v \in SessionValues : OnReconnectedResolves(v)
    \/ \E e \in Errors : OnReconnectedThrows(e) /\ failureCount' <= MaxCombinedFailures
    \/ Cancel /\ cancelCalls' <= MaxCombinedCancels
    \/ \E f \in FailureInputs : Fail(f) /\ aggregatorCalls' <= MaxCombinedCalls
    \/ Recover /\ aggregatorCalls' <= MaxCombinedCalls

CombinedSpec == Init /\ [][CombinedNext]_vars

(***************************************************************************)
(* Properties of the reconnection engine.                                  *)
(***************************************************************************)
Stopped == timers = {} /\ awaitingHealthCheck = 0 /\ awaitingOnReconnected = 0

Threw == lastOutcome \in {"healthCheckThrew", "onReconnectedThrew"}

\* C1: on a handle that is never cancelled, when the health check fails n times
\* with retryable errors and then resolves and the callback resolves (without
\* having thrown before), onReconnected has been invoked exactly once,
\* reconnected has been set exactly once, the only notification is the success
\* message, getSession() is the resolved value, and n + 1 health checks ran.
C1_FailuresThenSuccess ==
    (cancelCalls = 0 /\ lastOutcome = "onReconnectedResolved" /\ onReconnectedThrows = 0)
        => /\ onReconnectedCalls = 1
           /\ reconnected
           /\ reconnectedWrites = 1
           /\ notifications = <<SuccessMessage>>
           /\ session = lastValue
           /\ healthCheckCalls = failureCount + 1
           /\ Stopped

C1_Witness ==
    /\ cancelCalls = 0
    /\ lastOutcome = "onReconnectedResolved"
    /\ onReconnectedThrows = 0
    /\ failureCount = 2
    /\ session = "session-x"

\* C2 as stated: any thrown error whose response.status is 401 stops the engine
\* for good with the authentication-failed message as the only notification,
\* and a 401 of the health check leaves onReconnected uninvoked in that attempt.
C2_Any401IsTerminal ==
    (Threw /\ lastError.status = 401)
        => /\ Stopped
           /\ notifications = <<AuthFailedMessage>>
           /\ (lastOutcome = "healthCheckThrew" => onReconnectedCalls < healthCheckCalls)

\* C2 amended: the same for a thrown error that axios.isAxiosError recognises
\* and whose response.status is 401.
C2_Axios401IsTerminal ==
    (Threw /\ lastError.isAxiosError /\ lastError.status = 401)
        => /\ Stopped
           /\ notifications = <<AuthFailedMessage>>
           /\ (lastOutcome = "healthCheckThrew" => onReconnectedCalls < healthCheckCalls)

C2_Witness ==
    /\ lastOutcome = "healthCheckThrew"
    /\ lastError.isAxiosError /\ lastError.status = 401
    /\ failureCount >= 1
    /\ notifications = <<AuthFailedMessage>>

\* C3 as stated: once cancel() has been called, no outcome of the attempt in
\* flight invokes onNotify and none arms a retry timer.
C3_SilentAfterCancel ==
    [][cancelled => (notifications' = notifications /\ timers' \subseteq timers)]_vars

C5_CancelDuringHealthCheck ==
    (cancelledAt = "awaitHealthCheck" /\ lastOutcome = "healthCheckResolved")
        => /\ onReconnectedCalls = onReconnectedCallsAtCancel
           /\ notifications = <<>>
           /\ session = NULL
           /\ ~reconnected
           /\ Stopped

C5_Witness ==
    /\ cancelledAt = "awaitHealthCheck"
    /\ lastOutcome = "healthCheckResolved"
    /\ failureCount >= 1

\* C6: nothing is invoked before a timer callback has run (the health check is
\* only ever invoked from one), and after a cancel() made before the initial
\* delay elapsed nothing is ever invoked and the handle never reconnects.
C6_NothingBeforeInitialDelay ==
    /\ healthCheckCalls <= timerFirings
    /\ (timerFirings = 0 \/ cancelledAt = "idle")
          => /\ healthCheckCalls = 0
             /\ onReconnectedCalls = 0
             /\ session = NULL
             /\ ~reconnected
    /\ cancelledAt = "idle" => Stopped /\ timerFirings = 0

C6_Witness ==
    /\ cancelledAt = "idle"
    /\ cancelCalls >= 1
    /\ timers = {}

\* C7: after cancel() no timer is armed, and neither the health check nor
\* onReconnected is invoked again.
C7_NoAttemptAfterCancel ==
    /\ [](cancelled => timers = {})
    /\ [][cancelled => (healthCheckCalls' = healthCheckCalls
                        /\ onReconnectedCalls' = onReconnectedCalls)]_vars

C7_Witness ==
    /\ cancelledAt = "retryPending"
    /\ failureCount >= 1
    /\ timers = {}

\* C8: k calls of cancel() invoke the cleanup callback (when one was supplied)
\* k times, and a cancel() after the first changes neither the cancelled flag,
\* nor the timers, nor the attempt in flight.
C8_CancelRepeatable ==
    /\ [](cleanupCalls = IF hasCleanup THEN cancelCalls ELSE 0)
    /\ [][(cancelled /\ cancelCalls' # cancelCalls)
            => /\ cancelled'
               /\ timers' = timers
               /\ timeoutId' = timeoutId
               /\ awaitingHealthCheck' = awaitingHealthCheck
               /\ awaitingOnReconnected' = awaitingOnReconnected]_vars

C8_Witness ==
    /\ hasCleanup
    /\ cancelCalls = 3
    /\ cleanupCalls = 3
    /\ cancelledAt = "awaitHealthCheck"

\* C9: onNotify is called at most once in the whole run.
C9_AtMostOneNotification ==
    Len(notifications) <= 1

C9_Witness ==
    /\ Len(notifications) = 1
    /\ failureCount >= 1
    /\ cancelled

\* C10: reconnected never goes back to false, and session is assigned by a
\* resolved onReconnected at most once.
C10_ReconnectedStable ==
    /\ [][reconnected => reconnected']_vars
    /\ [](sessionWrites <= 1)

C10_Witness ==
    /\ reconnected
    /\ cancelled
    /\ sessionWrites = 1
    /\ failureCount >= 1

\* a step in which an awaited health check or callback throws
ThrowStep ==
    \/ awaitingHealthCheck' < awaitingHealthCheck /\ lastOutcome' = "healthCheckThrew"
    \/ awaitingOnReconnected' < awaitingOnReconnected /\ lastOutcome' = "onReconnectedThrew"

\* C11: a thrown error whose status is not 401 (no response, 403, 500; from the
\* health check or from onReconnected) on a handle that is not cancelled adds
\* one to the failure counter, arms exactly one timer for the next attempt and
\* notifies nothing.
C11_Non401IsRetryable ==
    [][(ThrowStep /\ lastError'.status # 401 /\ ~cancelled)
          => /\ failureCount' = failureCount + 1
             /\ timers = {}
             /\ Cardinality(timers') = 1
             /\ timeoutId' \in timers'
             /\ notifications' = notifications
             /\ ~reconnected']_vars

C11_Witness ==
    /\ lastOutcome = "healthCheckThrew"
    /\ lastError.isAxiosError /\ lastError.status = 403
    /\ ~cancelled
    /\ failureCount = 2
    /\ timers # {}
    /\ notifications = <<>>

\* C12: after any number of retryable failures, also more than the 10 handed
\* to the backoff function, a handle that is not cancelled has its next
\* attempt scheduled or already running.
C12_RetriesUnlimited ==
    (~cancelled /\ Threw /\ ~(lastError.isAxiosError /\ lastError.status = 401))
        => /\ ~Stopped
           /\ healthCheckCalls + Cardinality(timers) = failureCount + 1

C12_Witness ==
    /\ ~cancelled
    /\ Threw
    /\ failureCount = BackoffMaxFailureCount + 1
    /\ timers # {}

\* C13: cancel() on a reconnected handle keeps reconnected, the session, the
\* failure counter and the notifications, leaves no timer, and invokes the
\* cleanup callback once if one was supplied (none otherwise).
C13_CancelAfterReconnect ==
    [][(reconnected /\ cancelCalls' # cancelCalls)
          => /\ reconnected'
             /\ session' = session
             /\ notifications' = notifications
             /\ failureCount' = failureCount
             /\ timers' = {}
             /\ cleanupCalls' = cleanupCalls + (IF hasCleanup THEN 1 ELSE 0)]_vars

C13_Witness ==
    /\ reconnected
    /\ cancelCalls = 2
    /\ ~hasCleanup
    /\ cleanupCalls = 0
    /\ session = "session-x"

(***************************************************************************)
(* Properties of the OfflineState singleton.                               *)
(***************************************************************************)
NumWarnings(lines) == Cardinality({i \in DOMAIN lines : lines[i].kind = "warning"})

Records(m) == {m[i] : i \in DOMAIN m}

OperationsOf(m) == {m[i].operation : i \in DOMAIN m}

\* a step that is a call of fail (directly or through printOfflineWarning)
FailStep ==
    /\ aggregatorCalls' = aggregatorCalls + 1
    /\ lastCall' \in {"fail", "printOfflineWarning"}

CallStep(name) == aggregatorCalls' = aggregatorCalls + 1 /\ lastCall' = name

\* C14: a fail made while online switches to offline and prints exactly one
\* warning line; a fail made while offline stores its record and prints
\* nothing; a warning line is printed in exactly the steps that go from
\* online to offline, and no other call prints.
C14_OneWarningPerOutage ==
    [][/\ (FailStep /\ state = "online")
            => (state' = "offline" /\ NumWarnings(console') = NumWarnings(console) + 1)
       /\ (FailStep /\ state = "offline")
            => (state' = "offline" /\ console' = console
                /\ lastFailure' \in Records(failures'))
       /\ (state = "online" /\ state' = "offline")
            <=> (NumWarnings(console') = NumWarnings(console) + 1)
       /\ ~(state = "online" /\ state' = "offline") => console' = console]_vars

C14_Witness ==
    /\ state = "offline"
    /\ Len(failures) = 2
    /\ NumWarnings(console) = 2
    /\ lastCall = "fail"

\* C15 as stated: after fail('Session creation') and fail('Machine
\* registration') on a fresh singleton, in either order, one warning line has
\* been printed and it holds the entries of both operations.
C15_WarningNamesBothOperations ==
    (aggregatorCalls = 2
     /\ OperationsOf(failures) = {"Session creation", "Machine registration"})
        => /\ NumWarnings(console) = 1
           /\ \A i \in DOMAIN failures :
                \E k \in DOMAIN console[1].parts :
                    console[1].parts[k] = RenderFailure(failures[i])

\* C16: the first fail after a recover prints exactly one warning line, and a
\* fail that follows a fail prints nothing; over any number of outages the
\* warning lines count the fails made while online.
C16_RecoverRearms ==
    [][/\ (FailStep /\ lastCall = "recover")
            => (NumWarnings(console') = NumWarnings(console) + 1 /\ state' = "offline")
       /\ (FailStep /\ lastCall \in {"fail", "printOfflineWarning"})
            => console' = console]_vars

C16_Witness ==
    /\ aggregatorCalls = 6
    /\ lastCall = "fail"
    /\ NumWarnings(console) = 3
    /\ Len(failures) = 2

\* C17: a fail made while offline prints nothing, stores its record and keeps
\* every record stored under another operation name.
C17_OfflineFailsAccumulate ==
    [][(FailStep /\ state = "offline")
          => /\ console' = console
             /\ lastFailure' \in Records(failures')
             /\ \A g \in Records(failures) :
                    g.operation # lastFailure'.operation => g \in Records(failures')
             /\ OperationsOf(failures') = OperationsOf(failures) \cup {lastFailure'.operation}]_vars

C17_Witness ==
    /\ state = "offline"
    /\ NumWarnings(console) = 1
    /\ aggregatorCalls = 3
    /\ OperationsOf(failures) = {"Push tokens", "Session creation", "Machine registration"}

\* C18: recover sets the mode to online, empties the failures, prints nothing
\* and keeps the backend label; when the mode is online already it changes no
\* field.
C18_RecoverFrame ==
    [][CallStep("recover")
          => /\ state' = "online"
             /\ failures' = <<>>
             /\ console' = console
             /\ backend' = backend
             /\ (state = "online" => failures' = failures)]_vars

C18_Witness ==
    /\ lastCall = "recover"
    /\ backend = "Codex"
    /\ state = "online"
    /\ failures = <<>>
    /\ NumWarnings(console) = 1

\* C19: reset leaves the three fields as the constructor leaves them: mode
\* online, no failures, backend label Claude.
C19_ResetIsFresh ==
    [][CallStep("reset")
          => /\ state' = "online"
             /\ failures' = <<>>
             /\ backend' = "Claude"
             /\ console' = console]_vars

C19_Witness ==
    /\ lastCall = "reset"
    /\ NumWarnings(console) = 1
    /\ backend = "Claude"
    /\ failures = <<>>
    /\ aggregatorCalls = 3

\* C20: no operation name is stored twice, and a fail whose operation name is
\* stored already puts its record in the place of the stored one without
\* changing the number of records.
C20_OneRecordPerOperation ==
    /\ [](\A i, j \in DOMAIN failures :
            failures[i].operation = failures[j].operation => i = j)
    /\ [][(FailStep /\ lastFailure'.operation \in OperationsOf(failures))
            => /\ Len(failures') = Len(failures)
               /\ \A i \in DOMAIN failures :
                    failures'[i] = IF failures[i].operation = lastFailure'.operation
                                   THEN lastFailure' ELSE failures[i]]_vars

C20_Witness ==
    /\ Len(failures) = 2
    /\ aggregatorCalls = 3
    /\ lastCall = "fail"
    /\ lastFailure.operation = "Session creation"
    /\ failures[1] = lastFailure
    /\ lastFailure.errorCode = "ECONNREFUSED"

(***************************************************************************)
(* Properties of the attempt loop: the default probe, the states of the    *)
(* header comment, the handling of thrown errors.                          *)
(***************************************************************************)
\* a step in which the default health check settles
DefaultProbeStep == awaitingHealthCheck' < awaitingHealthCheck /\ lastAnswer' # NoAnswer

\* C21: the default health check succeeds exactly when the server answers with
\* a status below 500: the attempt then goes on to invoke onReconnected (on a
\* handle that is not cancelled), also for 401, 403 and 404; on a status of
\* 500 or above, or with no response, the attempt fails, is counted, notifies
\* nothing and is retried through a timer.
C21_DefaultProbeBelow500 ==
    [][DefaultProbeStep
          => IF lastAnswer' # NoResponse /\ lastAnswer' < 500
             THEN /\ lastOutcome' = "healthCheckResolved"
                  /\ failureCount' = failureCount
                  /\ notifications' = notifications
                  /\ timers' = timers
                  /\ ~cancelled => /\ onReconnectedCalls' = onReconnectedCalls + 1
                                   /\ awaitingOnReconnected' = 1
             ELSE /\ lastOutcome' = "healthCheckThrew"
                  /\ failureCount' = failureCount + 1
                  /\ notifications' = notifications
                  /\ onReconnectedCalls' = onReconnectedCalls
                  /\ ~cancelled => Cardinality(timers') = 1 /\ timeoutId' \in timers']_vars

C21_Witness ==
    /\ lastAnswer = 401
    /\ lastOutcome = "healthCheckResolved"
    /\ awaitingOnReconnected = 1
    /\ failureCount = 1
    /\ lastError.status = 500
    /\ notifications = <<>>

AttemptsInFlight == awaitingHealthCheck + awaitingOnReconnected

\* C23: at most one attempt is in flight, at most one timer is armed, never a
\* timer next to an attempt in flight; and an attempt starts only when none is
\* in flight and, after the first, only after the last attempt ended in a
\* retryable failure.
C23_OneAttemptAtATime ==
    /\ [](/\ AttemptsInFlight <= 1
          /\ Cardinality(timers) <= 1
          /\ AttemptsInFlight = 1 => timers = {})
    /\ [][healthCheckCalls' # healthCheckCalls
            => /\ healthCheckCalls' = healthCheckCalls + 1
               /\ AttemptsInFlight = 0
               /\ healthCheckCalls > 0
                    => /\ Threw
                       /\ ~(lastError.isAxiosError /\ lastError.status = 401)
                       /\ healthCheckCalls = failureCount]_vars

C23_Witness ==
    /\ healthCheckCalls = 3
    /\ failureCount = 2
    /\ awaitingHealthCheck = 1
    /\ onReconnectedThrows = 1
    /\ timers = {}

\* the state of the header comment's state machine the handle is in
EngineState ==
    IF cancelled THEN "cancelled"
    ELSE IF reconnected THEN "reconnected"
    ELSE CASE Phase \in {"awaitHealthCheck", "awaitOnReconnected"} -> "attempting"
           [] Phase = "idle" -> "idle"
           [] Phase = "retryPending" -> "retry-pending"
           [] Phase = "stopped" -> "auth-failed"

EngineStates ==
    {"idle", "attempting", "retry-pending", "reconnected", "auth-failed", "cancelled"}

DocumentedEdges ==
    { <<"idle", "attempting">>, <<"attempting", "reconnected">>,
      <<"attempting", "retry-pending">>, <<"attempting", "auth-failed">>,
      <<"retry-pending", "attempting">> }
    \cup { <<s, "cancelled">> : s \in EngineStates }

\* C24 as stated: the state changes along the documented edges only, and in
\* reconnected, auth-failed and cancelled no attempt starts, no timer is armed
\* and no notification is sent.
C24_DocumentedEdgesOnly ==
    [][/\ EngineState' # EngineState => <<EngineState, EngineState'>> \in DocumentedEdges
       /\ EngineState \in {"reconnected", "auth-failed", "cancelled"}
            => /\ healthCheckCalls' = healthCheckCalls
               /\ timers' \subseteq timers
               /\ notifications' = notifications]_vars

\* C25: a non-401 error thrown by onReconnected is handled as one thrown by the
\* health check: the one failure counter goes up by one, the delay of the next
\* attempt is asked of exponentialBackoffDelay with that count and the same
\* three constants, and a timer is armed unless the handle is cancelled; and
\* onReconnected is invoked only in the step in which the health check of the
\* same attempt resolved, at most once per health check.
C25_CallbackFailureAsProbeFailure ==
    /\ [][(ThrowStep /\ ~(lastError'.isAxiosError /\ lastError'.status = 401))
            => /\ failureCount' = failureCount + 1
               /\ lastBackoff' = <<failureCount + 1, 5000, 60000, 10>>
               /\ ~cancelled => timers = {} /\ Cardinality(timers') = 1
               /\ cancelled => timers' = timers]_vars
    /\ [][onReconnectedCalls' # onReconnectedCalls
            => /\ onReconnectedCalls' = onReconnectedCalls + 1
               /\ awaitingHealthCheck' = awaitingHealthCheck - 1
               /\ lastOutcome' = "healthCheckResolved"]_vars
    /\ [](onReconnectedCalls <= healthCheckCalls - awaitingHealthCheck)

C25_Witness ==
    /\ onReconnectedThrows = 1
    /\ lastError.status = 500
    /\ failureCount = 2
    /\ lastBackoff = <<2, 5000, 60000, 10>>
    /\ healthCheckCalls = 3
    /\ onReconnectedCalls = 2
    /\ awaitingOnReconnected = 1

\* C26: every step in which the health check or the callback throws ends the
\* attempt in exactly one of two ways: the authentication-failed stop (one
\* notification, no count, no timer) or the retry decision (one count, no
\* notification, a timer unless cancelled); the handle is left with nothing
\* in flight from that attempt.
C26_ThrownErrorsHandled ==
    [][ThrowStep
          => /\ AttemptsInFlight' = 0
             /\ \/ /\ notifications' = Append(notifications, AuthFailedMessage)
                   /\ failureCount' = failureCount
                   /\ timers' = timers
                \/ /\ notifications' = notifications
                   /\ failureCount' = failureCount + 1
                   /\ lastBackoff' = BackoffArgs(failureCount')
                   /\ timers' # timers <=> ~cancelled]_vars

C26_Witness ==
    /\ lastOutcome = "onReconnectedThrew"
    /\ ~lastError.isAxiosError
    /\ lastError.status = 401
    /\ failureCount = 2
    /\ timers # {}
    /\ notifications = <<>>

\* C27: when onReconnected resolves with null or undefined on a handle that is
\* not cancelled, reconnected becomes true, the success message is notified
\* and the session is that value.
C27_ReconnectedWithoutSession ==
    [][(awaitingOnReconnected' < awaitingOnReconnected
            /\ lastOutcome' = "onReconnectedResolved"
            /\ lastValue' \in {NULL, UNDEFINED}
            /\ ~cancelled)
          => /\ reconnected'
             /\ notifications' = Append(notifications, SuccessMessage)
             /\ session' = lastValue'
             /\ timers' = {}]_vars

C27_Witness ==
    /\ reconnected
    /\ session = UNDEFINED
    /\ lastValue = UNDEFINED
    /\ notifications = <<SuccessMessage>>
    /\ ~cancelled

(***************************************************************************)
(* Properties of getOrCreateSession, of the handle next to the singleton,  *)
(* and of the printed warning.                                             *)
(***************************************************************************)
\* a step in which a request of getOrCreateSession fails
ApiStep == apiCalls' = apiCalls + 1

\* what both readings of C22 say of a failed request whose error is reported
\* (when reported is true) or thrown on
SessionFailureHandled(reported) ==
    IF reported
    THEN /\ apiResult' = [kind |-> "returned", value |-> NULL]
         /\ aggregatorCalls' = aggregatorCalls + 1
         /\ lastCall' = "fail"
         /\ lastFailure'.operation = "Session creation"
         /\ lastFailure' \in Records(failures')
         /\ state' = "offline"
    ELSE /\ apiResult' = [kind |-> "threw", value |-> "Failed to get or create session: "]
         /\ UNCHANGED <<state, failures, console>>

SixNetworkCodes ==
    {"ECONNREFUSED", "ENOTFOUND", "ETIMEDOUT", "ECONNRESET", "EHOSTUNREACH", "ENETUNREACH"}

\* C22 as stated: a failed request is reported under 'Session creation' and
\* answered with null when the error code is one of the six network codes, or
\* the response status is 404, or the response status is 500 or above; every
\* other error is thrown on and leaves the mode and the Map as they were.
C22_ReportedOnAnyStatusFrom500 ==
    [][ApiStep
          => SessionFailureHandled(\/ lastApiError'.code \in SixNetworkCodes
                                   \/ lastApiError'.status = 404
                                   \/ lastApiError'.status >= 500)]_vars

\* C22, amended: the status of 500 or above is reported only on an error that
\* axios.isAxiosError recognises; on any other error it is thrown on.
C22_ReportedOnAxiosStatusFrom500 ==
    [][ApiStep
          => SessionFailureHandled(\/ lastApiError'.code \in SixNetworkCodes
                                   \/ lastApiError'.status = 404
                                   \/ /\ lastApiError'.isAxiosError
                                      /\ lastApiError'.status >= 500)]_vars

C22_Witness ==
    /\ apiCalls = 2
    /\ ~lastApiError.isAxiosError
    /\ lastApiError.status = 503
    /\ lastApiError.code = ""
    /\ apiResult.kind = "threw"
    /\ state = "offline"
    /\ Len(failures) = 1
    /\ failures[1].errorCode = "500"

\* a step of the handle
EngineActed == engineVars' # engineVars

\* C28: no step of the handle (a timer firing, a settled health check or
\* callback, cancel) changes the mode or the Map of the singleton, and the
\* mode goes from offline to online only in a call of recover: after a
\* successful reconnection the singleton stays offline until that call.
C28_EngineLeavesAggregatorAlone ==
    /\ [][EngineActed => UNCHANGED <<state, failures, backend, console>>]_vars
    /\ [][(state = "offline" /\ state' = "online") => CallStep("recover")]_vars

C28_Witness ==
    /\ reconnected
    /\ notifications = <<SuccessMessage>>
    /\ failureCount = 1
    /\ state = "offline"
    /\ Len(failures) = 2

\* C29: printOfflineWarning(backend) sets the backend label to its argument
\* and stores the record of operation 'Server connection'; from online it
\* goes offline and prints one warning line, while offline (after an earlier
\* call of its own or after another operation's fail) it prints nothing and
\* keeps the other records.
C29_PrintOfflineWarning ==
    [][CallStep("printOfflineWarning")
          => /\ backend' = lastBackendArg'
             /\ state' = "offline"
             /\ ServerConnectionFailure \in Records(failures')
             /\ OperationsOf(failures') = OperationsOf(failures) \cup {"Server connection"}
             /\ \A i \in DOMAIN failures :
                  failures[i].operation # "Server connection" => failures'[i] = failures[i]
             /\ state = "online" => /\ NumWarnings(console') = NumWarnings(console) + 1
                                    /\ Len(console') = Len(console) + 1
             /\ state = "offline" => console' = console]_vars

C29_Witness ==
    /\ lastCall = "printOfflineWarning"
    /\ lastBackendArg = "Codex"
    /\ backend = "Codex"
    /\ Len(failures) = 2
    /\ failures[1].operation = "Machine registration"
    /\ failures[2] = ServerConnectionFailure
    /\ NumWarnings(console) = 1
    /\ console[1].parts = <<RenderFailure(failures[1])>>

\* the entry of one failure, in the words of C30
EntryOf(f) ==
    f.operation \o " failed: "
      \o (IF f.errorCode \in {NONE, ""} THEN "unknown error"
          ELSE f.errorCode \o " - "
                 \o (IF f.errorCode \in DOMAIN ERROR_DESCRIPTIONS
                     THEN ERROR_DESCRIPTIONS[f.errorCode] ELSE "unknown error"))
      \o (IF f.url \in {NONE, ""} THEN "" ELSE " at " \o f.url)

RECURSIVE SummaryOf(_)
SummaryOf(m) ==
    IF Len(m) = 1 THEN EntryOf(m[1]) ELSE EntryOf(m[1]) \o "; " \o SummaryOf(Tail(m))

RECURSIVE DetailsOf(_)
DetailsOf(m) == IF m = <<>> THEN <<>> ELSE Head(m).details \o DetailsOf(Tail(m))

\* C30: the warning line is the fixed opening followed by the entries of the
\* stored failures in Map order joined by "; ", each entry being
\* '<operation> failed: <code> - <description>' ('unknown error' for a code
\* outside the table, '<operation> failed: unknown error' with no code) and
\* ' at <url>' only with a url; it is followed by one line '   -> <detail>'
\* per detail of every stored failure, in order.
C30_WarningFormat ==
    console # <<>>
        => /\ console[1].kind = "warning"
           /\ console[1].text = WarningPrefix \o SummaryOf(failures)
           /\ Len(console) = 1 + Len(DetailsOf(failures))
           /\ \A k \in 1..Len(DetailsOf(failures)) :
                /\ console[1 + k].kind = "detail"
                /\ console[1 + k].text = "   -> " \o DetailsOf(failures)[k]

C30_Witness ==
    /\ Len(failures) = 2
    /\ failures[1].operation = "Machine registration"
    /\ failures[2].operation = "Session creation"
    /\ Len(console) = 2
    /\ console[1].text =
         "Happy server unreachable, offline mode with auto-reconnect enabled - error details: "
           \o "Machine registration failed: EWEIRD - unknown error; "
           \o "Session creation failed: 503 - service unavailable at https://server/v1/sessions"
    /\ console[2].text = "   -> Server encountered an error, will retry automatically"

\* what both readings of C31 say of a failed request of getOrCreateMachine:
\* the minimal machine with the singleton untouched, a report under
\* 'Machine registration' with the minimal machine, or the error thrown on
MachineFailureHandled(outcome) ==
    CASE outcome = "rejected" ->
            /\ apiResult' = [kind |-> "returned", value |-> "minimal machine"]
            /\ UNCHANGED <<state, failures, aggregatorCalls>>
            /\ NumWarnings(console') = NumWarnings(console)
      [] outcome = "reported" ->
            /\ apiResult' = [kind |-> "returned", value |-> "minimal machine"]
            /\ aggregatorCalls' = aggregatorCalls + 1
            /\ lastCall' = "fail"
            /\ lastFailure'.operation = "Machine registration"
            /\ lastFailure' \in Records(failures')
            /\ state' = "offline"
      [] outcome = "rethrown" ->
            /\ apiResult'.kind = "threw"
            /\ UNCHANGED <<state, failures, console, aggregatorCalls>>

\* C31 as stated: a response status of 403 or 409 gives the minimal machine
\* with the mode and the Map unchanged; an axios network error code, a status
\* of 500 or above or a 404 is reported under 'Machine registration' and gives
\* the minimal machine; every other error is rethrown with the singleton
\* unchanged.
C31_AnyStatusHandled ==
    [][ApiStep
          => LET e == lastApiError'
             IN  MachineFailureHandled(
                   IF e.status \in {403, 409} THEN "rejected"
                   ELSE IF \/ e.isAxiosError /\ e.code \in SixNetworkCodes
                           \/ e.status >= 500
                           \/ e.status = 404 THEN "reported"
                   ELSE "rethrown")]_vars

\* C31, amended: the statuses count only on an error that axios.isAxiosError
\* recognises, and an axios network error code is looked at first; an error
\* axios does not recognise is rethrown whatever its response status.
C31_AxiosStatusHandled ==
    [][ApiStep
          => LET e == lastApiError'
             IN  MachineFailureHandled(
                   IF ~e.isAxiosError THEN "rethrown"
                   ELSE IF e.code \in SixNetworkCodes THEN "reported"
                   ELSE IF e.status \in {403, 409} THEN "rejected"
                   ELSE IF e.status >= 500 \/ e.status = 404 THEN "reported"
                   ELSE "rethrown")]_vars

C31_Witness ==
    /\ apiCalls = 2
    /\ lastApiError.isAxiosError
    /\ lastApiError.status = 409
    /\ lastApiError.code = "EPIPE"
    /\ apiResult = [kind |-> "returned", value |-> "minimal machine"]
    /\ state = "online"
    /\ failures = <<>>
    /\ Len(console) = 5

\* an attempt ends in a failure that is not an authentication failure
RetryableThrow == ThrowStep /\ ~(lastError'.isAxiosError /\ lastError'.status = 401)

AuthFailureNotified ==
    \E i \in 1..Len(notifications) : notifications[i] = AuthFailedMessage

\* C33: on a handle that is never cancelled and never meets a 401, if timers
\* fire, awaited calls settle and from some point on neither the health check
\* nor onReconnected throws, isReconnected() eventually returns true.
C33_EventuallyReconnected ==
    ([]~cancelled /\ []~AuthFailureNotified /\ <>[][~ThrowStep]_vars) => <>reconnected

C33_Witness ==
    /\ reconnected
    /\ ~cancelled
    /\ ~AuthFailureNotified
    /\ failureCount >= 2
    /\ onReconnectedThrows >= 1
    /\ timers = {}

\* C34: the mode is online exactly when the failure Map is empty; the Map is
\* not empty after a fail, empty after a recover or a reset, and left alone
\* by setBackend and isOffline, so it is not empty exactly when a fail was
\* made since the last recover or reset; isOffline() returns true exactly
\* then and changes no field.
C34_OnlineIffNoFailures ==
    /\ [](state = "online" <=> failures = <<>>)
    /\ [][/\ FailStep => failures' # <<>>
          /\ (CallStep("recover") \/ CallStep("reset")) => failures' = <<>>
          /\ (CallStep("setBackend") \/ CallStep("isOffline")) => failures' = failures
          /\ CallStep("isOffline")
               => /\ isOfflineResult' = (failures # <<>>)
                  /\ UNCHANGED <<state, failures, backend, console>>]_vars

C34_Witness ==
    /\ lastCall = "isOffline"
    /\ isOfflineResult
    /\ Len(failures) = 2
    /\ aggregatorCalls >= 5

C36_AuthFailedExcludesSession ==
    /\ [](AuthFailureNotified => (~reconnected /\ session = NULL))
    /\ [][AuthFailureNotified => AuthFailureNotified']_vars

C36_Witness ==
    /\ AuthFailureNotified
    /\ failureCount >= 1
    /\ lastOutcome = "onReconnectedThrew"
    /\ cancelCalls >= 1
    /\ cancelledAt = "stopped"

\* C37: once onReconnected has resolved, on a cancelled handle or not, no
\* health check and no onReconnected is invoked, no timer is armed, and
\* nothing is pending or in flight.
C37_NoRetryAfterCompletion ==
    /\ [](sessionWrites >= 1
            => timers = {} /\ awaitingHealthCheck = 0 /\ awaitingOnReconnected = 0)
    /\ [][sessionWrites >= 1
            => /\ healthCheckCalls' = healthCheckCalls
               /\ onReconnectedCalls' = onReconnectedCalls
               /\ nextTimer' = nextTimer
               /\ timers' = timers]_vars

C37_Witness ==
    /\ sessionWrites = 1
    /\ cancelledAt = "awaitOnReconnected"
    /\ ~reconnected
    /\ session = "session-x"
    /\ cancelCalls = 2

\* C38: the failure counter is 0 until an attempt has failed; it goes up by
\* one in every step in which an attempt ends in a failure that is not a 401,
\* on a cancelled handle too (where no timer is armed), and no other step
\* (success, a 401, cancel, a timer firing) changes it.
C38_FailureCounter ==
    /\ [](healthCheckCalls = 0 => failureCount = 0)
    /\ [][IF RetryableThrow
          THEN /\ failureCount' = failureCount + 1
               /\ cancelled => timers' = timers
          ELSE failureCount' = failureCount]_vars

C38_Witness ==
    /\ cancelledAt = "awaitHealthCheck"
    /\ lastOutcome = "healthCheckThrew"
    /\ lastError.status = 500
    /\ failureCount = 3
    /\ timers = {}


=============================================================================
